---- MODULE Spec2Model ----
(***************************************************************************)
(* Model of examples/storytelling-chatbot/src/processors.py:               *)
(* StoryProcessor (text buffer, tag extraction loop, turn cues) and        *)
(* StoryImageProcessor (bounded wait around the image generation stream),  *)
(* and of the two sound effect wrappers of                                 *)
(* src/samples/foundational/11-sound-effects.py.                           *)
(*                                                                         *)
(* A Python str is modelled as a sequence of one-character strings, so     *)
(* that the regular expressions, str.strip and str.replace of the source   *)
(* are computed character by character.                                    *)
(***************************************************************************)
EXTENDS Integers, Sequences, FiniteSets, TLC

VARIABLES
    text,     \* StoryProcessor._text, the buffer
    story,    \* StoryProcessor._story, the shared list of pages
    inp,      \* history: the frames handed to StoryProcessor.process_frame
    out,      \* history: the frames StoryProcessor pushed downstream
    spc,      \* StoryProcessor: position of process_frame, step by step
    loc,      \* the locals parts and before_break of the loop iteration
    ipc,      \* StoryImageProcessor: position of process_frame
    clock,    \* time elapsed since the timeout(7) block was entered
    nextAt,   \* time at which the capability has its next output ready
    genLeft,  \* items the running generation stream has still to yield
    cur,      \* the item i of the async for loop while it is being pushed
    stream,   \* the async generator of run_image_gen: none / open / closed
    iin,      \* history: frames handed to StoryImageProcessor.process_frame
    iout,     \* history: frames StoryImageProcessor pushed downstream
    runs,     \* history: one record per invocation of run_image_gen
    sin,      \* history: the frames handed to the sound effect wrappers
    sout      \* history: the frames the sound effect wrappers yielded

storyVars == <<text, story, inp, out, spc, loc>>
imageVars == <<ipc, clock, nextAt, genLeft, cur, stream, iin, iout, runs>>
soundVars == <<sin, sout>>
vars == <<text, story, inp, out, spc, loc, ipc, clock, nextAt, genLeft, cur, stream,
          iin, iout, runs, sin, sout>>

---------------------------------------------------------------------------
(* Bounds of the model *)

\* number of frames handed to StoryProcessor in one behaviour
MaxFrames == 3
\* number of frames handed to StoryImageProcessor in one behaviour
MaxImageFrames == 3
\* largest number of items one generation stream yields
MaxItems == 2
\* number of frames handed to the sound effect wrappers in one behaviour
MaxSoundFrames == 3

---------------------------------------------------------------------------
(* Strings *)

Min(S) == CHOOSE x \in S : \A y \in S : x <= y
Max(S) == CHOOSE x \in S : \A y \in S : x >= y

\* the characters str.strip() removes, among those of the model's alphabet
IsSpace(c) == c \in {" ", "\n"}

\* str.strip()
Strip(s) ==
    LET keep == {i \in 1..Len(s) : ~IsSpace(s[i])}
    IN  IF keep = {} THEN <<>> ELSE SubSeq(s, Min(keep), Max(keep))

\* str.replace("\n", " ")
ReplaceNewlines(s) == [i \in 1..Len(s) |-> IF s[i] = "\n" THEN " " ELSE s[i]]

\* lower-casing, as re.IGNORECASE compares characters
Lower(c) ==
    CASE c = "B" -> "b"
      [] c = "R" -> "r"
      [] c = "E" -> "e"
      [] c = "A" -> "a"
      [] c = "K" -> "k"
      [] OTHER -> c

NoMatch == [found |-> FALSE, start |-> 0, stop |-> 0]

\* re.search(r"<(.*?)>", s): the leftmost '<' that has a '>' after it with no
\* newline in between ('.' does not match a newline), up to the nearest such
\* '>'.  start and stop are the 1-based positions of '<' and '>'.
ImageSearch(s) ==
    LET closes(i) == {j \in (i+1)..Len(s) :
                         /\ s[j] = ">"
                         /\ \A k \in (i+1)..(j-1) : s[k] # "\n"}
        opens == {i \in 1..Len(s) : s[i] = "<" /\ closes(i) # {}}
    IN  IF opens = {} THEN NoMatch
        ELSE [found |-> TRUE, start |-> Min(opens), stop |-> Min(closes(Min(opens)))]

\* the character class and literals of r"\[[bB]reak\]" at position i of s
BreakAt(s, i) ==
    /\ i + 6 <= Len(s)
    /\ s[i] = "["
    /\ s[i+1] \in {"b", "B"}
    /\ s[i+2] = "r"
    /\ s[i+3] = "e"
    /\ s[i+4] = "a"
    /\ s[i+5] = "k"
    /\ s[i+6] = "]"

\* re.search(r"\[[bB]reak\]", s)
BreakSearch(s) ==
    LET at == {i \in 1..Len(s) : BreakAt(s, i)}
    IN  IF at = {} THEN NoMatch
        ELSE [found |-> TRUE, start |-> Min(at), stop |-> Min(at) + 6]

\* r"\[[bB]reak\]" under flags=re.IGNORECASE at position i of s
BreakAtIgnoreCase(s, i) ==
    /\ i + 6 <= Len(s)
    /\ <<Lower(s[i]), Lower(s[i+1]), Lower(s[i+2]), Lower(s[i+3]),
         Lower(s[i+4]), Lower(s[i+5]), Lower(s[i+6])>>
          = <<"[", "b", "r", "e", "a", "k", "]">>

\* re.split(r"\[[bB]reak\]", s, flags=re.IGNORECASE, maxsplit=1)
BreakSplit(s) ==
    LET at == {i \in 1..Len(s) : BreakAtIgnoreCase(s, i)}
    IN  IF at = {} THEN <<s>>
        ELSE <<SubSeq(s, 1, Min(at) - 1), SubSeq(s, Min(at) + 7, Len(s))>>

\* match.start() if match else float("inf"); positions of s are below Len(s) + 1
PosOrInf(m, s) == IF m.found THEN m.start ELSE Len(s) + 1

---------------------------------------------------------------------------
(* Frames *)

Frame(k, t) == [kind |-> k, text |-> t]

\* mutant of IsTextFrame: the subclasses of TextFrame are not text frames
IsTextFrameExact(f) == f.kind = "TextFrame"

\* isinstance(frame, TextFrame): the three story frame classes derive from it
IsTextFrame(f) ==
    f.kind \in {"TextFrame", "StoryPageFrame", "StoryImageFrame", "StoryPromptFrame"}

StoryPageFrame(t) == Frame("StoryPageFrame", t)
StoryImageFrame(t) == Frame("StoryImageFrame", t)
StoryPromptFrame(t) == Frame("StoryPromptFrame", t)
TextFrame(t) == Frame("TextFrame", t)
CueAssistantTurn == Frame("DailyTransportMessageFrame", <<"CUE_ASSISTANT_TURN">>)
CueUserTurn == Frame("DailyTransportMessageFrame", <<"CUE_USER_TURN">>)
SoundTalking == Frame("sound", <<"talking">>)
SoundListening == Frame("sound", <<"listening">>)
UserStoppedSpeakingFrame == Frame("UserStoppedSpeakingFrame", <<>>)
LLMFullResponseEndFrame == Frame("LLMFullResponseEndFrame", <<>>)
\* a frame of a class the processors do not name
OtherFrame == Frame("OtherFrame", <<>>)

---------------------------------------------------------------------------
(* StoryProcessor *)

\* the state process_frame works on
StoryState(t, s, o) == [text |-> t, story |-> s, out |-> o, done |-> FALSE]

\* mutant of ImageFirst: the comparison turned around
ImageFirstSwapped(image_pos, break_pos) == break_pos < image_pos

\* if image_pos < break_pos
ImageFirst(image_pos, break_pos) == image_pos < break_pos

\* image_match.group(1)
ImagePrompt(s, m) == SubSeq(s, m.start + 1, m.stop - 1)

\* mutant of RemoveMatch: the matched tag is not cut out
RemoveMatchKept(s, m) == s

\* self._text[: image_match.start()] + self._text[image_match.end() :]
RemoveMatch(s, m) == SubSeq(s, 1, m.start - 1) \o SubSeq(s, m.stop + 1, Len(s))

\* parts[0].replace("\n", " ").strip()
BeforeBreak(parts) == Strip(ReplaceNewlines(parts[1]))

\* mutant of IsPage: the minimum length off by one
IsPageOffByOne(before_break) == Len(before_break) > 1

\* if len(before_break) > 2
IsPage(before_break) == Len(before_break) > 2

\* parts[1].strip() if len(parts) > 1 else ""
Remainder(parts) == IF Len(parts) > 1 THEN Strip(parts[2]) ELSE <<>>

\* mutant of PageFrames: the cue pushed before the page
PageFramesCueFirst(before_break) ==
    <<CueAssistantTurn, StoryPageFrame(before_break)>>

\* the pushes of a page, in their order
PageFrames(before_break) ==
    <<StoryPageFrame(before_break), CueAssistantTurn>>

\* one iteration of the while loop of process_text_content on the state st;
\* done is set when the loop breaks
LoopStep(st) ==
    LET image_match == ImageSearch(st.text)
        break_match == BreakSearch(st.text)
        image_pos == PosOrInf(image_match, st.text)
        break_pos == PosOrInf(break_match, st.text)
    IN  IF ~image_match.found /\ ~break_match.found
        THEN [st EXCEPT !.done = TRUE]
        ELSE IF ImageFirst(image_pos, break_pos)
        THEN LET image_prompt == ImagePrompt(st.text, image_match)
             IN  [st EXCEPT
                    !.text = RemoveMatch(st.text, image_match),
                    !.out = Append(st.out, StoryImageFrame(image_prompt))]
        ELSE LET parts == BreakSplit(st.text)
                 before_break == BeforeBreak(parts)
             IN  IF IsPage(before_break)
                 THEN [st EXCEPT
                          !.story = Append(st.story, before_break),
                          !.out = st.out \o PageFrames(before_break),
                          !.text = Remainder(parts)]
                 ELSE [st EXCEPT !.text = Remainder(parts)]

\* process_text_content: the loop run until it breaks
RECURSIVE ProcessTextContent(_)
ProcessTextContent(st) ==
    IF st.done THEN st ELSE ProcessTextContent(LoopStep(st))

\* mutant of EndOfResponseFrames: the end marker forwarded before the prompt
EndOfResponseFramesReordered(t, frame) ==
    <<frame, StoryPromptFrame(t), CueUserTurn, SoundListening>>

\* mutant of EndOfResponseFrames: the prompt pushed only for a non-empty buffer
EndOfResponseFramesGuarded(t, frame) ==
    IF t = <<>> THEN <<frame, CueUserTurn, SoundListening>>
    ELSE <<StoryPromptFrame(t), frame, CueUserTurn, SoundListening>>

\* the pushes of the LLMFullResponseEndFrame branch, in their order
EndOfResponseFrames(t, frame) ==
    <<StoryPromptFrame(t), frame, CueUserTurn, SoundListening>>

\* mutant of PassThroughFrames: the frame is dropped
PassThroughDropped(frame) == <<>>

\* the push of the else branch
PassThroughFrames(frame) == <<frame>>

\* StoryProcessor.process_frame on the state st
ProcessFrame(st, frame) ==
    IF frame.kind = "UserStoppedSpeakingFrame"
    THEN [st EXCEPT !.out = st.out \o <<CueAssistantTurn, SoundTalking>>]
    ELSE IF IsTextFrame(frame)
    THEN [ProcessTextContent([st EXCEPT !.text = st.text \o frame.text])
             EXCEPT !.done = FALSE]
    ELSE IF frame.kind = "LLMFullResponseEndFrame"
    THEN [st EXCEPT !.out = st.out \o EndOfResponseFrames(st.text, frame),
                    !.text = <<>>]
    ELSE [st EXCEPT !.out = st.out \o PassThroughFrames(frame)]

\* a call of StoryProcessor.process_frame
StoryProcessFrame(frame) ==
    LET st == ProcessFrame(StoryState(text, story, out), frame)
    IN  /\ inp' = Append(inp, frame)
        /\ text' = st.text
        /\ story' = st.story
        /\ out' = st.out
        /\ UNCHANGED <<spc, loc>>

\* the locals of the loop while no break marker is being handled
NoLocals == [parts |-> <<>>, before_break |-> <<>>]

---------------------------------------------------------------------------
(* Inputs *)

\* the text deltas the language model may stream
Deltas ==
    { <<"a", "b", "c">>,
      <<"[", "b", "r", "e", "a", "k", "]", " ", "a">>,
      <<" ">>,
      <<"\n">>,
      <<"[", "b", "r", "e", "a", "k", "]">>,
      <<"[", "B", "r", "e", "a", "k", "]">>,
      <<"[", "B", "R", "E", "A", "K", "]">>,
      <<"[", "b", "r">>,
      <<"e", "a", "k", "]">>,
      <<"<", "f", "o", "o", ">">>,
      <<"<">>,
      <<"<", "\n">>,
      <<">">> }

\* the frames that may arrive at StoryProcessor
StoryInputs ==
    {TextFrame(d) : d \in Deltas}
        \cup {UserStoppedSpeakingFrame, LLMFullResponseEndFrame, OtherFrame,
              StoryPageFrame(<<"a", "b", "c">>),
              StoryImageFrame(<<"f", "o", "o">>),
              StoryPromptFrame(<<"a", "b", "c">>)}

---------------------------------------------------------------------------
(* Specification of StoryProcessor *)

InitStory ==
    /\ text = <<>>
    /\ story = <<>>
    /\ inp = <<>>
    /\ out = <<>>
    /\ spc = "idle"
    /\ loc = NoLocals

InitImage ==
    /\ ipc = "idle"
    /\ clock = 0
    /\ nextAt = 0
    /\ genLeft = 0
    /\ cur = OtherFrame
    /\ stream = "none"
    /\ iin = <<>>
    /\ iout = <<>>
    /\ runs = <<>>

InitSound ==
    /\ sin = <<>>
    /\ sout = <<>>

Init == InitStory /\ InitImage /\ InitSound

UserStoppedSpeaking ==
    /\ Len(inp) < MaxFrames
    /\ StoryProcessFrame(UserStoppedSpeakingFrame)
    /\ UNCHANGED <<imageVars, soundVars>>

TextDelta ==
    /\ Len(inp) < MaxFrames
    /\ \E f \in {g \in StoryInputs : IsTextFrame(g)} : StoryProcessFrame(f)
    /\ UNCHANGED <<imageVars, soundVars>>

EndOfResponse ==
    /\ Len(inp) < MaxFrames
    /\ StoryProcessFrame(LLMFullResponseEndFrame)
    /\ UNCHANGED <<imageVars, soundVars>>

PassThrough ==
    /\ Len(inp) < MaxFrames
    /\ StoryProcessFrame(OtherFrame)
    /\ UNCHANGED <<imageVars, soundVars>>

Next == UserStoppedSpeaking \/ TextDelta \/ EndOfResponse \/ PassThrough

Spec == Init /\ [][Next]_vars

---------------------------------------------------------------------------
(* StoryProcessor step by step: every iteration of the loop of             *)
(* process_text_content is a step, and so is every statement of the        *)
(* branch that handles a break marker, whose pushes are awaits at which    *)
(* other tasks of the event loop may run.                                  *)

\* process_frame is called: a text frame is appended to the buffer and the
\* loop is entered; the other branches run to their end
StepFrame ==
    /\ spc = "idle"
    /\ Len(inp) < MaxFrames
    /\ \E frame \in StoryInputs :
          /\ inp' = Append(inp, frame)
          /\ IF IsTextFrame(frame)
             THEN /\ text' = text \o frame.text
                  /\ spc' = "loop"
                  /\ UNCHANGED <<story, out>>
             ELSE LET st == ProcessFrame(StoryState(text, story, out), frame)
                  IN  /\ text' = st.text
                      /\ story' = st.story
                      /\ out' = st.out
                      /\ spc' = "idle"
    /\ UNCHANGED loc
    /\ UNCHANGED <<imageVars, soundVars>>

\* if not image_match and not break_match: break
StepExit ==
    /\ spc = "loop"
    /\ ~ImageSearch(text).found
    /\ ~BreakSearch(text).found
    /\ spc' = "idle"
    /\ UNCHANGED <<text, story, inp, out, loc>>
    /\ UNCHANGED <<imageVars, soundVars>>

\* the image tag comes first: it is cut out and its frame is pushed
StepImage ==
    LET image_match == ImageSearch(text)
        break_match == BreakSearch(text)
    IN  /\ spc = "loop"
        /\ image_match.found \/ break_match.found
        /\ ImageFirst(PosOrInf(image_match, text), PosOrInf(break_match, text))
        /\ text' = RemoveMatch(text, image_match)
        /\ out' = Append(out, StoryImageFrame(ImagePrompt(text, image_match)))
        /\ UNCHANGED <<spc, story, inp, loc>>
        /\ UNCHANGED <<imageVars, soundVars>>

\* the break marker comes first and the text before it is too short for a
\* page: the buffer becomes the text after the marker
StepShort ==
    LET image_match == ImageSearch(text)
        break_match == BreakSearch(text)
        parts == BreakSplit(text)
    IN  /\ spc = "loop"
        /\ image_match.found \/ break_match.found
        /\ ~ImageFirst(PosOrInf(image_match, text), PosOrInf(break_match, text))
        /\ ~IsPage(BeforeBreak(parts))
        /\ text' = Remainder(parts)
        /\ UNCHANGED <<spc, story, inp, out, loc>>
        /\ UNCHANGED <<imageVars, soundVars>>

\* the break marker comes first and the text before it is a page:
\* self._story.append(before_break)
StepAppend ==
    LET image_match == ImageSearch(text)
        break_match == BreakSearch(text)
        parts == BreakSplit(text)
    IN  /\ spc = "loop"
        /\ image_match.found \/ break_match.found
        /\ ~ImageFirst(PosOrInf(image_match, text), PosOrInf(break_match, text))
        /\ IsPage(BeforeBreak(parts))
        /\ story' = Append(story, BeforeBreak(parts))
        /\ loc' = [parts |-> parts, before_break |-> BeforeBreak(parts)]
        /\ spc' = "page"
        /\ UNCHANGED <<text, inp, out>>
        /\ UNCHANGED <<imageVars, soundVars>>

\* await self.push_frame(StoryPageFrame(before_break))
StepPushPage ==
    /\ spc = "page"
    /\ out' = Append(out, StoryPageFrame(loc.before_break))
    /\ spc' = "cue"
    /\ UNCHANGED <<text, story, inp, loc>>
    /\ UNCHANGED <<imageVars, soundVars>>

\* await self.push_frame(DailyTransportMessageFrame(CUE_ASSISTANT_TURN))
StepPushCue ==
    /\ spc = "cue"
    /\ out' = Append(out, CueAssistantTurn)
    /\ spc' = "rest"
    /\ UNCHANGED <<text, story, inp, loc>>
    /\ UNCHANGED <<imageVars, soundVars>>

\* self._text = parts[1].strip() if len(parts) > 1 else ""
StepRest ==
    /\ spc = "rest"
    /\ text' = Remainder(loc.parts)
    /\ loc' = NoLocals
    /\ spc' = "loop"
    /\ UNCHANGED <<story, inp, out>>
    /\ UNCHANGED <<imageVars, soundVars>>

\* the steps of process_text_content
LoopSteps ==
    StepExit \/ StepImage \/ StepShort \/ StepAppend \/ StepPushPage
        \/ StepPushCue \/ StepRest

NextSteps == StepFrame \/ LoopSteps

SpecSteps == Init /\ [][NextSteps]_vars

---------------------------------------------------------------------------
(* Vocabulary of the properties of StoryProcessor *)

\* the payloads of a sequence of frames, joined
RECURSIVE ConcatText(_)
ConcatText(fs) == IF fs = <<>> THEN <<>> ELSE Head(fs).text \o ConcatText(Tail(fs))

\* every frame of fs is a plain text delta
OnlyDeltas(fs) == \A i \in 1..Len(fs) : fs[i].kind = "TextFrame"

\* a break marker in any letter case starts at position i of s
MarkerAt(s, i) ==
    /\ i + 6 <= Len(s)
    /\ s[i] = "["
    /\ s[i+1] \in {"b", "B"}
    /\ s[i+2] \in {"r", "R"}
    /\ s[i+3] \in {"e", "E"}
    /\ s[i+4] \in {"a", "A"}
    /\ s[i+5] \in {"k", "K"}
    /\ s[i+6] = "]"

Markers(s) == {i \in 1..Len(s) : MarkerAt(s, i)}

\* newlines turned into spaces, then trimmed
Normalized(s) == Strip(ReplaceNewlines(s))

\* t occurs in s as a contiguous piece
Contains(s, t) == \E i \in 1..(Len(s) - Len(t) + 1) : SubSeq(s, i, i + Len(t) - 1) = t

OfKind(o, k) == SelectSeq(o, LAMBDA f : f.kind = k)

\* the structured frames: image trigger, page, UI cue, prompt replay
Structured(o) ==
    SelectSeq(o, LAMBDA f : f.kind \in {"StoryImageFrame", "StoryPageFrame",
                                        "StoryPromptFrame", "DailyTransportMessageFrame"})

\* the text deltas received so far, joined into the string they rebuild
Fed == ConcatText(inp)

\* the history is a run of text deltas closed by one end-of-response marker
DeltasThenEnd ==
    /\ Len(inp) >= 1
    /\ inp[Len(inp)] = LLMFullResponseEndFrame
    /\ OnlyDeltas(SubSeq(inp, 1, Len(inp) - 1))

\* the result of handing the whole string to process_frame as one text delta
\* from the initial state, followed by the end-of-response marker
WholeRun(s) ==
    ProcessFrame(ProcessFrame(StoryState(<<>>, <<>>, <<>>), TextFrame(s)),
                 LLMFullResponseEndFrame)

---------------------------------------------------------------------------
(* C1 *)

\* C1: feeding a string split into any sequence of text deltas, followed by one
\* end-of-response marker, emits the same structured frames and leaves the
\* same story as feeding the string in a single text delta.
C1_FragmentationIdempotent ==
    DeltasThenEnd =>
        LET whole == WholeRun(ConcatText(SubSeq(inp, 1, Len(inp) - 1)))
        IN  /\ Structured(out) = Structured(whole.out)
            /\ story = whole.story

---------------------------------------------------------------------------
(* C2 *)

\* C2, taken on texts without image tags: when the text deltas rebuild a
\* string with exactly one break marker (in any letter case) preceded by text
\* whose normalised form has more than 2 characters, exactly one page frame
\* is emitted, it carries that normalised text, and the story is that one
\* entry.
C2_OneMarkerOnePage ==
    (/\ OnlyDeltas(inp)
     /\ Cardinality(Markers(Fed)) = 1
     /\ \A i \in 1..Len(Fed) : Fed[i] # "<"
     /\ Len(Normalized(SubSeq(Fed, 1, Min(Markers(Fed)) - 1))) > 2)
    => LET page == Normalized(SubSeq(Fed, 1, Min(Markers(Fed)) - 1))
       IN  /\ OfKind(out, "StoryPageFrame") = <<StoryPageFrame(page)>>
           /\ story = <<page>>

---------------------------------------------------------------------------
(* C3 *)

\* positions i..j of s hold an image tag: '<', a payload without '<', '>' or
\* newline, and '>'
TagAt(s, i, j) ==
    /\ i < j
    /\ s[i] = "<"
    /\ s[j] = ">"
    /\ \A k \in (i+1)..(j-1) : s[k] \notin {"<", ">", "\n"}

\* the tags of s that precede every other '<' and every break marker
LeadingTags(s) ==
    {ij \in (1..Len(s)) \X (1..Len(s)) :
        /\ TagAt(s, ij[1], ij[2])
        /\ \A k \in 1..(ij[1] - 1) : s[k] # "<"
        /\ \A k \in Markers(s) : k > ij[2]}

---------------------------------------------------------------------------
(* C4 *)

\* C4: an end-of-response marker arriving while the buffer holds non-empty
\* text T emits exactly prompt-replay(T), the marker itself, the UI cue
\* "user's turn" and the audio cue "listening", in this order, and leaves the
\* buffer empty.
C4_EndOfResponseFlush ==
    [][(inp' = Append(inp, LLMFullResponseEndFrame) /\ text # <<>>)
          => /\ out' = out \o <<StoryPromptFrame(text), LLMFullResponseEndFrame,
                                CueUserTurn, SoundListening>>
             /\ text' = <<>>]_vars

\* an end-of-response marker has flushed a non-empty buffer
C4_Witness ==
    /\ Len(inp) >= 2
    /\ inp[Len(inp)] = LLMFullResponseEndFrame
    /\ Len(out) >= 4
    /\ out[Len(out) - 3].kind = "StoryPromptFrame"
    /\ out[Len(out) - 3].text # <<>>
    /\ text = <<>>

---------------------------------------------------------------------------
(* C5 *)

\* C5 as stated: a prompt-replay frame is emitted on an end-of-response
\* marker if and only if the buffer is non-empty; with an empty buffer only
\* the marker, the UI cue and the audio cue are emitted.
C5_PromptIffNonEmpty ==
    [][inp' = Append(inp, LLMFullResponseEndFrame)
          => /\ text = <<>> =>
                   out' = out \o <<LLMFullResponseEndFrame, CueUserTurn, SoundListening>>
             /\ text # <<>> =>
                   Len(OfKind(out', "StoryPromptFrame"))
                       = Len(OfKind(out, "StoryPromptFrame")) + 1]_vars

\* C5 as amended: every end-of-response marker emits one prompt-replay frame
\* carrying the buffer, whatever it holds; with an empty buffer the frames
\* emitted are the prompt-replay frame with empty text, the marker, the UI cue
\* and the audio cue.
C5_PromptAlways ==
    [][inp' = Append(inp, LLMFullResponseEndFrame)
          => /\ Len(OfKind(out', "StoryPromptFrame"))
                   = Len(OfKind(out, "StoryPromptFrame")) + 1
             /\ text = <<>> =>
                   out' = out \o <<StoryPromptFrame(<<>>), LLMFullResponseEndFrame,
                                   CueUserTurn, SoundListening>>]_vars

\* an end-of-response marker has arrived at an empty buffer
C5_Witness ==
    /\ Len(inp) >= 1
    /\ inp[Len(inp)] = LLMFullResponseEndFrame
    /\ Len(out) >= 4
    /\ out[Len(out) - 3] = StoryPromptFrame(<<>>)

---------------------------------------------------------------------------
(* C7 *)

\* the first iteration of the extraction loop on the buffer b handles a break
\* marker: one is found and no image tag starts in front of it
BreakHandled(b) ==
    /\ BreakSearch(b).found
    /\ ImageSearch(b).found => ImageSearch(b).start > BreakSearch(b).start

\* C7: when the loop handles a break marker whose normalised pre-marker
\* segment has 2 or fewer characters, the text delta ends as if the trimmed
\* text after the marker had arrived on its own: no page frame, no UI cue and
\* no story entry come from the dropped segment, and when the text after the
\* marker holds no further pattern the buffer is exactly that trimmed text.
C7_ShortSegmentDropped ==
    [][\A d \in Deltas :
          LET b == text \o d
              p == Min(Markers(b))
              rest == Strip(SubSeq(b, p + 7, Len(b)))
              alone == ProcessTextContent(StoryState(rest, story, out))
          IN  (/\ inp' = Append(inp, TextFrame(d))
               /\ BreakHandled(b)
               /\ Len(Normalized(SubSeq(b, 1, p - 1))) <= 2)
              => /\ text' = alone.text
                 /\ story' = alone.story
                 /\ out' = alone.out
                 /\ (~ImageSearch(rest).found /\ Markers(rest) = {})
                       => (text' = rest /\ story' = story /\ out' = out)]_vars

\* a marker with a short segment in front of it and text behind it has been
\* handled: nothing was emitted and the buffer holds the trimmed text behind
C7_Witness ==
    /\ OnlyDeltas(inp)
    /\ Markers(Fed) # {}
    /\ Len(Normalized(SubSeq(Fed, 1, Min(Markers(Fed)) - 1))) \in 1..2
    /\ out = <<>>
    /\ story = <<>>
    /\ text = <<"a">>

---------------------------------------------------------------------------
(* C8 *)

\* C8: text of more than 2 trimmed characters followed by the marker in any
\* letter case is cut into a page at the marker: once the marker is the end
\* of the text delivered, the page frame and its UI cue have been emitted and
\* the buffer no longer holds the marker.
C8_MarkerAnyCase ==
    (/\ OnlyDeltas(inp)
     /\ Markers(Fed) = {Len(Fed) - 6}
     /\ \A i \in 1..Len(Fed) : Fed[i] # "<"
     /\ Len(Normalized(SubSeq(Fed, 1, Len(Fed) - 7))) > 2)
    => /\ out = <<StoryPageFrame(Normalized(SubSeq(Fed, 1, Len(Fed) - 7))),
                  CueAssistantTurn>>
       /\ text = <<>>

---------------------------------------------------------------------------
(* C10 *)

\* C10 as stated: a frame that is not a user-paused-speaking event, a text
\* delta or an end-of-response marker is forwarded once and unchanged, nothing
\* else is emitted, and buffer and story stay as they are.
C10_UnrecognisedForwarded ==
    [][\A f \in StoryInputs :
          (/\ inp' = Append(inp, f)
           /\ f.kind \notin {"UserStoppedSpeakingFrame", "TextFrame",
                             "LLMFullResponseEndFrame"})
          => /\ out' = Append(out, f)
             /\ text' = text
             /\ story' = story]_vars

\* C10 as amended: a frame that is not a user-paused-speaking event, a text
\* frame (the page, image-trigger and prompt-replay frames are text frames
\* too) or an end-of-response marker is forwarded once and unchanged, nothing
\* else is emitted, and buffer and story stay as they are.
C10_NonTextForwarded ==
    [][\A f \in StoryInputs :
          (/\ inp' = Append(inp, f)
           /\ f.kind \notin {"UserStoppedSpeakingFrame", "TextFrame",
                             "StoryPageFrame", "StoryImageFrame", "StoryPromptFrame",
                             "LLMFullResponseEndFrame"})
          => /\ out' = Append(out, f)
             /\ text' = text
             /\ story' = story]_vars

\* a frame of an unnamed class has arrived behind buffered text and has been
\* forwarded
C10_Witness ==
    /\ Len(inp) >= 2
    /\ inp[Len(inp)] = OtherFrame
    /\ out # <<>>
    /\ out[Len(out)] = OtherFrame
    /\ text # <<>>

---------------------------------------------------------------------------
(* C11 *)

\* s holds a '<' with a '>' somewhere after it
HasTag(s) == \E i, j \in 1..Len(s) : i < j /\ s[i] = "<" /\ s[j] = ">"

\* C11: after process_frame has handled a text delta, the buffer holds no
\* complete image tag (a '<' with a following '>') and no break marker in
\* any letter case.
C11_BufferHoldsNoPattern ==
    (inp # <<>> /\ inp[Len(inp)].kind = "TextFrame")
        => (~HasTag(text) /\ Markers(text) = {})

---------------------------------------------------------------------------
(* C12 *)

\* C12: the loop of process_text_content terminates: an iteration that
\* finds an image tag or a break marker ends with a strictly shorter
\* buffer (the buffer is untouched until the iteration assigns it), the
\* loop is left only when neither is found, and the process is always at
\* one of the statements of the loop, each of which has a next step; the
\* length of the buffer is the variant.
C12_LoopTerminates ==
    /\ [][(spc # "idle" /\ spc' = "loop") => Len(text') < Len(text)]_vars
    /\ [][(spc # "idle" /\ spc' \notin {"idle", "loop"}) => text' = text]_vars
    /\ [][(spc # "idle" /\ spc' = "idle")
            => (~ImageSearch(text).found /\ ~BreakSearch(text).found
                /\ text' = text)]_vars
    /\ [](spc \in {"idle", "loop", "page", "cue", "rest"})

\* the last delta made the loop run two iterations that each found a
\* marker, one for the page "abc" and one for an empty segment, before it
\* left with the buffer empty
C12_Witness ==
    /\ spc = "idle"
    /\ inp = <<TextFrame(<<"a", "b", "c">>),
               TextFrame(<<"[", "B", "R", "E", "A", "K", "]">>),
               TextFrame(<<"[", "b", "r", "e", "a", "k", "]">>)>>
    /\ text = <<>>
    /\ story = << <<"a", "b", "c">> >>

---------------------------------------------------------------------------
(* C13 *)

\* s is t or a beginning of t
IsPrefix(s, t) == Len(s) <= Len(t) /\ SubSeq(t, 1, Len(s)) = s

\* the texts of the page frames pushed so far, in their order
PagesPushed ==
    LET pages == OfKind(out, "StoryPageFrame")
    IN  [i \in 1..Len(pages) |-> pages[i].text]

---------------------------------------------------------------------------
(* C14 *)

\* C14: at every point of execution, between the statements that handle
\* one break marker too, the story holds only pages whose page frame has
\* already been pushed downstream.
C14_StoryOnlyPushedPages == IsPrefix(story, PagesPushed)

---------------------------------------------------------------------------
(* C18 *)

\* the generated variants: page, image trigger, prompt replay
IsGenerated(f) == f.kind \in {"StoryPageFrame", "StoryImageFrame", "StoryPromptFrame"}

\* C18 as stated: a generated variant that arrives at StoryProcessor is
\* forwarded unchanged, its text is not appended to the buffer and the
\* loop is not run on it.
C18_GeneratedForwarded ==
    [][\A f \in StoryInputs :
          (IsGenerated(f) /\ inp' = Append(inp, f))
              => (out' = Append(out, f) /\ text' = text /\ spc' = "idle")]_vars

\* C18, amended: a generated variant that arrives at StoryProcessor is
\* handled as a text delta: nothing is forwarded for it on arrival, its
\* text is appended to the buffer and the loop is entered; and no frame
\* the loop then pushes is the frame that arrived.
C18_GeneratedBuffered ==
    /\ [][\A f \in StoryInputs :
            (IsGenerated(f) /\ inp' = Append(inp, f))
                => (out' = out /\ text' = text \o f.text /\ spc' = "loop"
                    /\ story' = story)]_vars
    /\ [][(spc # "idle" /\ IsGenerated(inp[Len(inp)]) /\ Len(out') > Len(out))
            => out'[Len(out')] # inp[Len(inp)]]_vars

\* an image trigger frame arrived behind the delta "<": its text is in the
\* buffer and the loop is about to run on "<foo"
C18_Witness ==
    /\ spc = "loop"
    /\ Len(inp) = 2
    /\ inp[1] = TextFrame(<<"<">>)
    /\ inp[2] = StoryImageFrame(<<"f", "o", "o">>)
    /\ text = <<"<", "f", "o", "o">>
    /\ out = <<>>

---------------------------------------------------------------------------
(* C19 *)

\* s begins or ends with a whitespace character
HasOuterSpace(s) == s # <<>> /\ (IsSpace(s[1]) \/ IsSpace(s[Len(s)]))

\* the page s is free of markup: no '<' with a later '>', no break marker
\* in any letter case, no newline, no whitespace at either end
CleanPage(s) ==
    /\ ~HasTag(s)
    /\ Markers(s) = {}
    /\ \A i \in 1..Len(s) : s[i] # "\n"
    /\ ~HasOuterSpace(s)

\* C19: no page frame pushed and no story entry holds a complete image
\* tag, a break marker in any letter case, a newline, or whitespace at
\* its beginning or end.
C19_PagesClean ==
    /\ \A i \in 1..Len(story) : CleanPage(story[i])
    /\ \A n \in 1..Len(out) :
          out[n].kind = "StoryPageFrame" => CleanPage(out[n].text)

---------------------------------------------------------------------------
(* StoryImageProcessor *)

\* async with timeout(7)
TimeoutBound == 7

\* the times, counted from the start of the invocation, at which the
\* capability may have an output ready; the last one lies behind the bound
Arrivals == {0, TimeoutBound - 3, TimeoutBound + 1}

\* IMAGE_GEN_PROMPT % frame.text
ImageGenPrompt(t) == <<"IMAGE_GEN_PROMPT">> \o t

\* the k-th frame yielded by the generation stream of invocation r
GeneratedFrame(r, k) ==
    [kind |-> "URLImageRawFrame", text |-> runs[r].prompt, run |-> r, seq |-> k]

\* the frames that may arrive at StoryImageProcessor
ImageInputs ==
    {StoryImageFrame(<<"f", "o", "o">>),
     StoryPageFrame(<<"a", "b", "c">>),
     OtherFrame}

\* process_frame returns: its locals, the timer and the capability's
\* schedule for the stream it iterated are gone
Return ==
    /\ clock' = 0
    /\ nextAt' = 0
    /\ genLeft' = 0
    /\ cur' = OtherFrame

\* mutant of Expired: the wait ends two time units late
ExpiredLate == clock >= 7 + 2

\* the bound of timeout(7), measured from the entry of the block, has expired
Expired == clock >= TimeoutBound

\* mutant of IsImageTrigger: every text frame is taken for an image trigger
IsImageTriggerAnyText(frame) == IsTextFrame(frame)

\* isinstance(frame, StoryImageFrame)
IsImageTrigger(frame) == frame.kind = "StoryImageFrame"

\* mutant of Accepting: a frame is handed over while a call is in flight
AcceptingAlways == TRUE

\* the pipeline hands the stage its next frame only when process_frame has
\* returned from the frame before: one frame is processed to completion
\* before the next
Accepting == ipc = "idle"

\* process_frame is called with a StoryImageFrame: the timeout block is
\* entered and run_image_gen(...) is iterated; the capability fixes how many
\* items it will yield and when the first is ready
ImageTrigger ==
    /\ Accepting
    /\ Len(iin) < MaxImageFrames
    /\ \E frame \in {f \in ImageInputs : IsImageTrigger(f)},
          n \in 0..MaxItems, at \in Arrivals :
          /\ iin' = Append(iin, frame)
          /\ runs' = Append(runs, [prompt |-> ImageGenPrompt(frame.text),
                                   trigger |-> Len(iin) + 1,
                                   firstAt |-> at,
                                   outcome |-> "running"])
          /\ genLeft' = n
          /\ nextAt' = at
    /\ clock' = 0
    /\ stream' = "open"
    /\ ipc' = "waiting"
    /\ UNCHANGED <<cur, iout>>
    /\ UNCHANGED <<storyVars, soundVars>>

\* process_frame is called with any other frame: the else branch
ImageForward ==
    /\ Accepting
    /\ Len(iin) < MaxImageFrames
    /\ \E frame \in {f \in ImageInputs : ~IsImageTrigger(f)} :
          /\ iin' = Append(iin, frame)
          /\ iout' = Append(iout, frame)
    /\ UNCHANGED <<ipc, clock, nextAt, genLeft, cur, stream, runs>>
    /\ UNCHANGED <<storyVars, soundVars>>

\* time passes while process_frame is suspended, in the stream's __anext__
\* or in push_frame
Tick ==
    /\ ipc \in {"waiting", "pushing"}
    /\ ~Expired
    /\ ipc = "waiting" => clock < nextAt
    /\ clock' = clock + 1
    /\ UNCHANGED <<ipc, nextAt, genLeft, cur, stream, iin, iout, runs>>
    /\ UNCHANGED <<storyVars, soundVars>>

\* the stream yields its next item: the body of the async for starts
GenYield ==
    /\ ipc = "waiting"
    /\ ~Expired
    /\ clock >= nextAt
    /\ genLeft > 0
    /\ cur' = GeneratedFrame(Len(runs), Cardinality({i \in 1..Len(iout) :
                   iout[i].kind = "URLImageRawFrame" /\ iout[i].run = Len(runs)}) + 1)
    /\ genLeft' = genLeft - 1
    /\ \E at \in Arrivals : nextAt' = IF at < clock THEN clock ELSE at
    /\ ipc' = "pushing"
    /\ UNCHANGED <<clock, stream, iin, iout, runs>>
    /\ UNCHANGED <<storyVars, soundVars>>

\* await self.push_frame(i) completes
PushDone ==
    /\ ipc = "pushing"
    /\ ~Expired
    /\ iout' = Append(iout, cur)
    /\ ipc' = "waiting"
    /\ UNCHANGED <<clock, nextAt, genLeft, cur, stream, iin, runs>>
    /\ UNCHANGED <<storyVars, soundVars>>

\* the stream is exhausted: the async for and the timeout block end
GenEnd ==
    /\ ipc = "waiting"
    /\ ~Expired
    /\ clock >= nextAt
    /\ genLeft = 0
    /\ stream' = "closed"
    /\ runs' = [runs EXCEPT ![Len(runs)].outcome = "completed"]
    /\ ipc' = "idle"
    /\ Return
    /\ UNCHANGED <<iin, iout>>
    /\ UNCHANGED <<storyVars, soundVars>>

\* mutant of Timeout: the first expiry for a trigger starts the invocation
\* again
TimeoutRetry ==
    /\ ipc \in {"waiting", "pushing"}
    /\ Expired
    /\ IF Cardinality({r \in 1..Len(runs) : runs[r].trigger = runs[Len(runs)].trigger}) = 1
       THEN /\ runs' = Append([runs EXCEPT ![Len(runs)].outcome = "timeout"],
                              [runs[Len(runs)] EXCEPT !.outcome = "running"])
            /\ stream' = "open"
            /\ ipc' = "waiting"
            /\ clock' = 0
            /\ nextAt' = 0
            /\ genLeft' = 0
            /\ cur' = OtherFrame
       ELSE /\ stream' = IF ipc = "waiting" THEN "closed" ELSE "open"
            /\ runs' = [runs EXCEPT ![Len(runs)].outcome = "timeout"]
            /\ ipc' = "idle"
            /\ Return
    /\ UNCHANGED <<iin, iout>>
    /\ UNCHANGED <<storyVars, soundVars>>

\* the bound expires: the suspended process_frame is cancelled, the timeout
\* block raises TimeoutError, and except TimeoutError: pass swallows it.
\* Cancelled inside __anext__ the exception unwinds the stream and ends it;
\* cancelled inside push_frame the stream stays suspended at its yield.
\* The TimeoutError of async_timeout is taken to be the builtin that the
\* except clause names, as it is from Python 3.11 on.
Timeout ==
    /\ ipc \in {"waiting", "pushing"}
    /\ Expired
    /\ stream' = IF ipc = "waiting" THEN "closed" ELSE "open"
    /\ runs' = [runs EXCEPT ![Len(runs)].outcome = "timeout"]
    /\ ipc' = "idle"
    /\ Return
    /\ UNCHANGED <<iin, iout>>
    /\ UNCHANGED <<storyVars, soundVars>>

NextImage == ImageTrigger \/ ImageForward \/ Tick \/ GenYield \/ PushDone \/ GenEnd \/ Timeout

SpecImage == Init /\ [][NextImage]_vars

---------------------------------------------------------------------------
(* Vocabulary of the properties of StoryImageProcessor *)

\* the frames of invocation r among the frames forwarded
ForwardedOf(r) ==
    SelectSeq(iout, LAMBDA f : f.kind = "URLImageRawFrame" /\ f.run = r)

\* the frames forwarded that no generation stream produced
ForwardedInputs == SelectSeq(iout, LAMBDA f : f.kind # "URLImageRawFrame")

\* process_frame has returned from handling invocation r
Returned(r) == r < Len(runs) \/ ipc = "idle"

---------------------------------------------------------------------------
(* C6 *)

\* C6: when the capability has its first output ready only behind the bound
\* (at 8 time units against the bound of 7), no frame of that trigger is ever
\* forwarded, nothing but input frames and generated frames (no error or
\* failure frame) is forwarded, and process_frame returns by the timeout,
\* after which the stage is idle for the next frame.
C6_LateFirstOutput ==
    \A r \in 1..Len(runs) :
        runs[r].firstAt > TimeoutBound =>
            /\ ForwardedOf(r) = <<>>
            /\ Len(ForwardedInputs) = Len(SelectSeq(iin, LAMBDA f : f.kind # "StoryImageFrame"))
            /\ Returned(r) => runs[r].outcome = "timeout"
            /\ runs[r].outcome = "timeout" => Returned(r)

\* a trigger whose first output lay behind the bound has timed out and the
\* frame that arrived behind it has been accepted and forwarded
C6_Witness ==
    /\ Len(runs) = 1
    /\ runs[1].firstAt > TimeoutBound
    /\ runs[1].outcome = "timeout"
    /\ ForwardedOf(1) = <<>>
    /\ Len(iin) > runs[1].trigger
    /\ iout # <<>>
    /\ iout[Len(iout)] = iin[Len(iin)]

---------------------------------------------------------------------------
(* C9 *)

\* C9: the frames forwarded that are not generated are exactly the frames
\* received that are not image triggers, each once, unchanged and in the
\* order received; the capability is invoked once per image trigger received
\* and never for another frame; no image trigger is forwarded.
C9_OnlyImageTriggersConsumed ==
    /\ ForwardedInputs = SelectSeq(iin, LAMBDA f : f.kind # "StoryImageFrame")
    /\ Len(runs) = Len(SelectSeq(iin, LAMBDA f : f.kind = "StoryImageFrame"))
    /\ \A r \in 1..Len(runs) : iin[runs[r].trigger].kind = "StoryImageFrame"
    /\ \A n \in 1..Len(iout) : iout[n].kind # "StoryImageFrame"

\* two different frames with an image trigger between them have been handled
C9_Witness ==
    /\ Len(iin) = 3
    /\ iin[1].kind = "StoryPageFrame"
    /\ iin[2].kind = "StoryImageFrame"
    /\ iin[3] = OtherFrame
    /\ ForwardedOf(1) # <<>>
    /\ ForwardedInputs = <<iin[1], iin[3]>>

---------------------------------------------------------------------------
(* C15 *)

\* C15: one bound covers the whole stream of a trigger: the time counted
\* from the entry of the block never runs backwards during an invocation
\* and never passes the bound. Frames forwarded stay forwarded; a generated
\* frame is forwarded only for the invocation in flight, never for one
\* that process_frame has returned from, and as the next of its stream in
\* the order produced; nothing but generated frames and input frames is
\* forwarded; no trigger is invoked twice; and after a timeout the stage
\* is idle for the next frame.
C15_PartialTimeout ==
    /\ [][(ipc # "idle" /\ ipc' # "idle") => clock' >= clock]_vars
    /\ [][IsPrefix(iout, iout')]_vars
    /\ [][(iout' # iout /\ iout'[Len(iout')].kind = "URLImageRawFrame")
            => (/\ ipc = "pushing"
                /\ runs[Len(runs)].outcome = "running"
                /\ iout'[Len(iout')].run = Len(runs)
                /\ iout'[Len(iout')].seq = Len(ForwardedOf(Len(runs))) + 1)]_vars
    /\ [](/\ clock <= TimeoutBound
          /\ \A n \in 1..Len(iout) :
                iout[n].kind = "URLImageRawFrame" \/ iout[n] \in ImageInputs
          /\ \A r1, r2 \in 1..Len(runs) :
                r1 < r2 => runs[r1].trigger < runs[r2].trigger
          /\ \A r \in 1..Len(runs) :
                (runs[r].outcome = "timeout" /\ r = Len(runs)) => ipc = "idle")

\* a stream whose first item came at 4 had that item forwarded and was then
\* cut off by the bound, 3 time units after the item; the next frame was
\* accepted and forwarded behind it
C15_Witness ==
    /\ Len(runs) = 1
    /\ runs[1].firstAt = TimeoutBound - 3
    /\ runs[1].outcome = "timeout"
    /\ Len(ForwardedOf(1)) = 1
    /\ Len(iin) = runs[1].trigger + 1
    /\ iout = ForwardedOf(1) \o <<iin[Len(iin)]>>

---------------------------------------------------------------------------
(* C16 *)

\* the position in the input of the k-th frame that is not an image trigger
NonTriggerIndex(k) ==
    CHOOSE i \in 1..Len(iin) :
        /\ ~IsImageTrigger(iin[i])
        /\ Cardinality({j \in 1..i : ~IsImageTrigger(iin[j])}) = k

\* the position in the input of the frame that the n-th forwarded frame
\* stems from: its trigger for a generated frame, itself for another
SourceOf(n) ==
    IF iout[n].kind = "URLImageRawFrame"
    THEN runs[iout[n].run].trigger
    ELSE NonTriggerIndex(Cardinality({m \in 1..n : iout[m].kind # "URLImageRawFrame"}))

\* C16: while an invocation is in flight the stage takes no other frame
\* and begins no second invocation; the frames forwarded for two triggers
\* are never interleaved and a frame that arrived behind a trigger is
\* forwarded only after that trigger's frames: the forwarded frames are in
\* the order of the input frames they stem from.
C16_Sequential ==
    /\ [][ipc # "idle" => (iin' = iin /\ Len(runs') = Len(runs))]_vars
    /\ [](\A n \in 1..(Len(iout) - 1) : SourceOf(n) <= SourceOf(n + 1))

\* two triggers in a row had frames forwarded, and the frame behind them
\* was forwarded after all of these
C16_Witness ==
    /\ Len(iin) = 3
    /\ IsImageTrigger(iin[1])
    /\ IsImageTrigger(iin[2])
    /\ ~IsImageTrigger(iin[3])
    /\ Len(ForwardedOf(1)) = 2
    /\ ForwardedOf(2) # <<>>
    /\ iout = ForwardedOf(1) \o ForwardedOf(2) \o <<iin[3]>>

---------------------------------------------------------------------------
(* C17 *)

\* C17: once a timeout has been handled no generation stream is open,
\* whether the bound expired while the stage waited for the next item or
\* while it pushed an item downstream.
C17_NoStreamOpenAfterTimeout ==
    (ipc = "idle" /\ runs # <<>> /\ runs[Len(runs)].outcome = "timeout")
        => stream = "closed"

---------------------------------------------------------------------------
(* The sound effect wrappers of 11-sound-effects.py *)

\* AudioQueueFrame(sounds[file])
AudioQueueFrame(file) == Frame("AudioQueueFrame", <<file>>)
LLMResponseEndQueueFrame == Frame("LLMResponseEndQueueFrame", <<>>)
LLMMessagesQueueFrame == Frame("LLMMessagesQueueFrame", <<"messages">>)
\* a frame of a class the wrappers do not name
OtherQueueFrame == Frame("QueueFrame", <<>>)

\* the frames that may arrive at a wrapper
SoundInputs ==
    {LLMResponseEndQueueFrame, LLMMessagesQueueFrame, OtherQueueFrame,
     AudioQueueFrame("ding1.wav")}

\* mutant of OutboundYields: the sound is yielded behind the frame
OutboundYieldsFrameFirst(frame) ==
    IF frame.kind = "LLMResponseEndQueueFrame"
    THEN <<frame, AudioQueueFrame("ding1.wav")>>
    ELSE <<frame>>

\* OutboundSoundEffectWrapper.process_frame: the frames it yields, in order
OutboundYields(frame) ==
    IF frame.kind = "LLMResponseEndQueueFrame"
    THEN <<AudioQueueFrame("ding1.wav"), frame>>
    ELSE <<frame>>

\* InboundSoundEffectWrapper.process_frame: the frames it yields, in order
InboundYields(frame) ==
    IF frame.kind = "LLMMessagesQueueFrame"
    THEN <<AudioQueueFrame("ding2.wav"), frame>>
    ELSE <<frame>>

\* a frame is run through the outbound wrapper
OutboundProcessFrame ==
    /\ Len(sin) < MaxSoundFrames
    /\ \E frame \in SoundInputs :
          /\ sin' = Append(sin, [wrapper |-> "outbound", frame |-> frame])
          /\ sout' = Append(sout, OutboundYields(frame))
    /\ UNCHANGED <<storyVars, imageVars>>

\* a frame is run through the inbound wrapper
InboundProcessFrame ==
    /\ Len(sin) < MaxSoundFrames
    /\ \E frame \in SoundInputs :
          /\ sin' = Append(sin, [wrapper |-> "inbound", frame |-> frame])
          /\ sout' = Append(sout, InboundYields(frame))
    /\ UNCHANGED <<storyVars, imageVars>>

NextSound == OutboundProcessFrame \/ InboundProcessFrame

SpecSound == Init /\ [][NextSound]_vars

---------------------------------------------------------------------------
(* C20 *)

\* the frame class that makes the wrapper w play its sound
TriggerKind(w) ==
    IF w = "outbound" THEN "LLMResponseEndQueueFrame" ELSE "LLMMessagesQueueFrame"

\* the sound of the wrapper w
SoundOf(w) == IF w = "outbound" THEN "ding1.wav" ELSE "ding2.wav"

\* C20: for every frame run through a wrapper the frames yielded end with
\* that frame, which is yielded once; before it comes exactly one audio
\* frame, with the wrapper's sound, when the frame is of the wrapper's
\* trigger class, and nothing otherwise.
C20_SoundBeforeFrame ==
    /\ Len(sout) = Len(sin)
    /\ \A n \in 1..Len(sin) :
          LET frame == sin[n].frame
              w == sin[n].wrapper
              y == sout[n]
          IN  /\ y # <<>>
              /\ y[Len(y)] = frame
              /\ Cardinality({i \in 1..Len(y) : y[i] = frame}) = 1
              /\ IF frame.kind = TriggerKind(w)
                 THEN SubSeq(y, 1, Len(y) - 1) = <<AudioQueueFrame(SoundOf(w))>>
                 ELSE Len(y) = 1

\* each wrapper has handled its own trigger frame, and the outbound one
\* the trigger frame of the other
C20_Witness ==
    /\ Len(sin) = 3
    /\ sin[1] = [wrapper |-> "outbound", frame |-> LLMResponseEndQueueFrame]
    /\ sin[2] = [wrapper |-> "inbound", frame |-> LLMMessagesQueueFrame]
    /\ sin[3] = [wrapper |-> "outbound", frame |-> LLMMessagesQueueFrame]
    /\ Len(sout[1]) = 2
    /\ Len(sout[2]) = 2
    /\ Len(sout[3]) = 1

====
